---- MODULE Spec2Model ----
(***************************************************************************)
(* Adv-2-SONAR: a UBMP4 (PIC16F1459) program that triggers an HC-SR04      *)
(* ultrasonic module, times the ECHO pulse by counting 58 us busy-wait     *)
(* delays, and shows the distance on four LEDs.                            *)
(*                                                                         *)
(* The source file holds two builds of the program:                        *)
(*   - the baseline: sonar_range(void) called from main on a fixed         *)
(*     100 ms schedule;                                                    *)
(*   - the revised design of "Learn More" 4(b),(c): sonar_range(maxRange), *)
(*     which exits early at maxRange and waits for the previous ECHO pulse *)
(*     before it triggers, either dropped in place of the original         *)
(*     ("unguarded") or called only when sonar_ready() ("guarded").        *)
(*                                                                         *)
(* Time is not measured by a clock: the only thing a delay does that the   *)
(* program can see is to let the ECHO pulse end, so an action that takes   *)
(* time lets the sensor drop ECHO.  One step of a busy-wait poll takes no  *)
(* time against the sensor's pulse lengths (>= 100 us).                    *)
(***************************************************************************)
EXTENDS Integers, FiniteSets, TLC

\* Longest ECHO pulse the sensor produces, in 58 us ticks.
MaxEcho == 1000
\* maxRange arguments tried are 0..MaxSmallRange, the call site's and UCHAR_MAX.
MaxSmallRange == 5
\* Largest value of an unsigned char (range, distance, maxRange).
UCHAR_MAX == 255
\* The maxRange of the example call site.
CallSiteRange == 90

VARIABLES
    variant,    \* which build runs: "baseline", "unguarded" or "guarded"
    maxRange,   \* argument of sonar_range(maxRange) (unused by the baseline)
    pc,         \* the statement the program is at
    LATC,       \* port C output latch: bit 0 is TRIG, bits 4..7 the LEDs
    sensor,     \* HC-SR04: "idle", "burst" (triggered, transmitting), "echo" (ECHO high)
    echoTicks,  \* 58 us delays run by the counting loop since ECHO was seen to rise
    range,      \* local counter of sonar_range
    result,     \* value returned by the last call of sonar_range
    distance,   \* global: target distance in cm
    pulses,     \* history: trigger pulses issued in the current main-loop iteration
    early       \* history: the last return of sonar_range left ECHO asserted

vars == <<variant, maxRange, pc, LATC, sensor, echoTicks, range, result,
          distance, pulses, early>>

MaxRanges == (0..MaxSmallRange) \cup {CallSiteRange, UCHAR_MAX}

-----------------------------------------------------------------------------
(* Pins and registers *)

\* #define ECHO PORTCbits.RC1: the level of the ECHO pin, for sensor state s.
\* Fault variant: the pin read as PORTC & 0b00000010, so that ECHO == 1 never holds.
ECHO_masked(s) == IF s = "echo" THEN 2 ELSE 0
ECHO(s) == IF s = "echo" THEN 1 ELSE 0

\* #define TRIG LATCbits.LATC0: bit 0 of the latch l.
TRIG(l) == l % 2

\* TRIG = b: bit 0 of the latch l set to b, the other bits kept.
SetTRIG(l, b) == (l \div 2) * 2 + b

\* What a delay can do to the sensor in state s: an ECHO pulse may end.
TimePasses(s) == IF s = "echo" THEN {"echo", "idle"} ELSE {s}

\* The same for one tick of the counting loop, the n-th of the pulse: the
\* sensor's pulse is at most MaxEcho ticks long.
TickPasses(s, n) == IF s = "echo" /\ n >= MaxEcho THEN {"idle"} ELSE TimePasses(s)

\* The sensor sees a trigger pulse: it starts a measurement unless one is
\* in flight.
Triggered(s) == IF s = "idle" THEN "burst" ELSE s

-----------------------------------------------------------------------------
(* Pure parts of the code *)

\* if(range < 255) range++;
\* Fault variant: the increment without its guard.
IncWrap(r) == (r + 1) % (UCHAR_MAX + 1)
IncSat(r) == IF r < UCHAR_MAX THEN r + 1 ELSE r

\* range++ on an unsigned char.
IncByte(r) == (r + 1) % (UCHAR_MAX + 1)

\* if(range == maxRange)
\* Fault variant: the test written range > maxRange.
ReachedMax_gt(r, m) == r > m
ReachedMax(r, m) == r = m

\* The if / else-if cascade of main: the value written to LATC.
\* Fault variant: the thresholds compared with >= and one too low.
LedPattern_ge(d) ==
    IF d >= 20 THEN 240
    ELSE IF d >= 10 THEN 112
    ELSE IF d >= 5 THEN 48
    ELSE IF d >= 1 THEN 16
    ELSE 0
LedPattern(d) ==
    IF d > 20 THEN 240          \* 0b11110000
    ELSE IF d > 10 THEN 112     \* 0b01110000
    ELSE IF d > 5 THEN 48       \* 0b00110000
    ELSE IF d > 1 THEN 16       \* 0b00010000
    ELSE 0

\* bool sonar_ready(void)
sonar_ready(s) == IF ECHO(s) = 1 THEN FALSE ELSE TRUE

\* Where the main loop starts an iteration, for build v.
LoopTop(v) ==
    CASE v = "baseline"  -> "trig"
      [] v = "unguarded" -> "waitprev"
      [] v = "guarded"   -> "poll"

-----------------------------------------------------------------------------
(* Initial states *)

\* After OSC_config, UBMP4_config and TRISC0 = 0: latches cleared, the two
\* globals zero, the sensor idle, the program at the top of while(1).
InitOf(v, m) ==
    /\ variant = v
    /\ maxRange = m
    /\ pc = LoopTop(v)
    /\ LATC = 0
    /\ sensor = "idle"
    /\ echoTicks = 0
    /\ range = 0
    /\ result = 0
    /\ distance = 0
    /\ pulses = 0
    /\ early = FALSE

Init == InitOf("baseline", 0)

InitRev == \E v \in {"unguarded", "guarded"} : \E m \in MaxRanges : InitOf(v, m)

-----------------------------------------------------------------------------
(* sonar_range, both versions *)

\* if(sonar_ready()) { distance = sonar_range(90); }
PollReady ==
    /\ pc = "poll"
    /\ pc' = IF sonar_ready(sensor) THEN "waitprev" ELSE "display"
    /\ UNCHANGED <<variant, maxRange, LATC, sensor, echoTicks, range, result,
                   distance, pulses, early>>

\* while(ECHO == 1); __delay_ms(1);
WaitPrev ==
    /\ pc = "waitprev"
    /\ \/ /\ ECHO(sensor) = 1
          /\ \E s \in TimePasses(sensor) : sensor' = s
          /\ pc' = pc
       \/ /\ ECHO(sensor) # 1
          /\ \E s \in TimePasses(sensor) : sensor' = s
          /\ pc' = "trig"
    /\ UNCHANGED <<variant, maxRange, LATC, echoTicks, range, result,
                   distance, pulses, early>>

\* TRIG = 1;
TrigHigh ==
    /\ pc = "trig"
    /\ LATC' = SetTRIG(LATC, 1)
    /\ pulses' = pulses + 1
    /\ pc' = "pulse"
    /\ UNCHANGED <<variant, maxRange, sensor, echoTicks, range, result,
                   distance, early>>

\* __delay_us(20); TRIG = 0;
\* Fault variant: TRIG = 0 left out.
TrigLow_stuck ==
    /\ pc = "pulse"
    /\ sensor' = Triggered(sensor)
    /\ pc' = "reset"
    /\ UNCHANGED <<variant, maxRange, LATC, echoTicks, range, result,
                   distance, pulses, early>>
TrigLow ==
    /\ pc = "pulse"
    /\ \E s \in TimePasses(sensor) : sensor' = Triggered(s)
    /\ LATC' = SetTRIG(LATC, 0)
    /\ pc' = "reset"
    /\ UNCHANGED <<variant, maxRange, echoTicks, range, result,
                   distance, pulses, early>>

\* unsigned char range = 0;
ResetRange ==
    /\ pc = "reset"
    /\ range' = 0
    /\ pc' = "wait"
    /\ UNCHANGED <<variant, maxRange, LATC, sensor, echoTicks, result,
                   distance, pulses, early>>

\* The sensor, its burst sent, raises ECHO.
EchoRise ==
    /\ sensor = "burst"
    /\ sensor' = "echo"
    /\ echoTicks' = 0
    /\ UNCHANGED <<variant, maxRange, pc, LATC, range, result,
                   distance, pulses, early>>

\* while(ECHO == 0);
\* Fault variant: the wait written while(ECHO == 1).
WaitEchoStart_inverted ==
    /\ pc = "wait"
    /\ pc' = IF ECHO(sensor) = 1 THEN pc ELSE "count"
    /\ UNCHANGED <<variant, maxRange, LATC, sensor, echoTicks, range, result,
                   distance, pulses, early>>
WaitEchoStart ==
    /\ pc = "wait"
    /\ \/ /\ ECHO(sensor) = 0
          /\ pc' = pc
       \/ /\ ECHO(sensor) # 0
          /\ pc' = "count"
    /\ UNCHANGED <<variant, maxRange, LATC, sensor, echoTicks, range, result,
                   distance, pulses, early>>

\* Baseline: do { __delay_us(58); if(range < 255) range++; } while(ECHO == 1);
\* return(range);
\* Fault variant: the loop condition written ECHO == 0.
CountTick_inverted ==
    /\ variant = "baseline"
    /\ pc = "count"
    /\ \E s \in TickPasses(sensor, echoTicks + 1) :
          /\ sensor' = s
          /\ echoTicks' = IF echoTicks < MaxEcho THEN echoTicks + 1 ELSE echoTicks
          /\ range' = IncSat(range)
          /\ IF ECHO(s) = 0
                THEN /\ pc' = pc
                     /\ UNCHANGED <<result, early>>
                ELSE /\ pc' = "ret"
                     /\ result' = range'
                     /\ early' = (s = "echo")
    /\ UNCHANGED <<variant, maxRange, LATC, distance, pulses>>
\* Fault variant: a tick counted only when ECHO is still high at its end.
CountTick_floor ==
    /\ variant = "baseline"
    /\ pc = "count"
    /\ \E s \in TickPasses(sensor, echoTicks + 1) :
          /\ sensor' = s
          /\ echoTicks' = IF echoTicks < MaxEcho THEN echoTicks + 1 ELSE echoTicks
          /\ range' = IF ECHO(s) = 1 THEN IncSat(range) ELSE range
          /\ IF ECHO(s) = 1
                THEN /\ pc' = pc
                     /\ UNCHANGED <<result, early>>
                ELSE /\ pc' = "ret"
                     /\ result' = range'
                     /\ early' = (s = "echo")
    /\ UNCHANGED <<variant, maxRange, LATC, distance, pulses>>
CountTick ==
    /\ variant = "baseline"
    /\ pc = "count"
    /\ \E s \in TickPasses(sensor, echoTicks + 1) :
          /\ sensor' = s
          /\ echoTicks' = IF echoTicks < MaxEcho THEN echoTicks + 1 ELSE echoTicks
          /\ range' = IncSat(range)
          /\ IF ECHO(s) = 1
                THEN /\ pc' = pc
                     /\ UNCHANGED <<result, early>>
                ELSE /\ pc' = "ret"
                     /\ result' = range'
                     /\ early' = (s = "echo")
    /\ UNCHANGED <<variant, maxRange, LATC, distance, pulses>>

\* Revised: do { __delay_us(58); range++; if(range == maxRange) return(0); }
\* while(ECHO == 1); return(range);
\* Fault variant: the maxRange test made only once the pulse has ended.
CountTickMax_noExit ==
    /\ variant # "baseline"
    /\ pc = "count"
    /\ \E s \in TickPasses(sensor, echoTicks + 1) :
          /\ sensor' = s
          /\ echoTicks' = IF echoTicks < MaxEcho THEN echoTicks + 1 ELSE echoTicks
          /\ range' = IncByte(range)
          /\ IF ECHO(s) = 1
                THEN /\ pc' = pc
                     /\ UNCHANGED <<result, early>>
                ELSE /\ pc' = "ret"
                     /\ result' = IF ReachedMax(range', maxRange) THEN 0 ELSE range'
                     /\ early' = (s = "echo")
    /\ UNCHANGED <<variant, maxRange, LATC, distance, pulses>>
CountTickMax ==
    /\ variant # "baseline"
    /\ pc = "count"
    /\ \E s \in TickPasses(sensor, echoTicks + 1) :
          /\ sensor' = s
          /\ echoTicks' = IF echoTicks < MaxEcho THEN echoTicks + 1 ELSE echoTicks
          /\ range' = IncByte(range)
          /\ IF ReachedMax(range', maxRange)
                THEN /\ pc' = "ret"
                     /\ result' = 0
                     /\ early' = (s = "echo")
                ELSE IF ECHO(s) = 1
                THEN /\ pc' = pc
                     /\ UNCHANGED <<result, early>>
                ELSE /\ pc' = "ret"
                     /\ result' = range'
                     /\ early' = (s = "echo")
    /\ UNCHANGED <<variant, maxRange, LATC, distance, pulses>>

-----------------------------------------------------------------------------
(* main *)

\* distance = sonar_range(...);
Assign ==
    /\ pc = "ret"
    /\ distance' = result
    /\ pc' = "display"
    /\ UNCHANGED <<variant, maxRange, LATC, sensor, echoTicks, range, result,
                   pulses, early>>

\* Display distance on LEDs: a write of the whole of LATC.
Display ==
    /\ pc = "display"
    /\ LATC' = LedPattern(distance)
    /\ pc' = "delay"
    /\ UNCHANGED <<variant, maxRange, sensor, echoTicks, range, result,
                   distance, pulses, early>>

\* __delay_ms(100);
Delay ==
    /\ pc = "delay"
    /\ \E s \in TimePasses(sensor) : sensor' = s
    /\ pc' = "sw1"
    /\ UNCHANGED <<variant, maxRange, LATC, echoTicks, range, result,
                   distance, pulses, early>>

\* if(SW1 == 0) RESET();  and the loop's back edge.
CheckSW1 ==
    /\ pc = "sw1"
    /\ \E SW1 \in {0, 1} :
          IF SW1 = 0
             THEN /\ pc' = "boot"
                  /\ UNCHANGED pulses
             ELSE /\ pc' = LoopTop(variant)
                  /\ pulses' = 0
    /\ UNCHANGED <<variant, maxRange, LATC, sensor, echoTicks, range, result,
                   distance, early>>

-----------------------------------------------------------------------------
(* Specifications *)

Next ==
    \/ TrigHigh \/ TrigLow \/ ResetRange \/ EchoRise \/ WaitEchoStart
    \/ CountTick
    \/ Assign \/ Display \/ Delay \/ CheckSW1

NextRev ==
    \/ PollReady \/ WaitPrev
    \/ TrigHigh \/ TrigLow \/ ResetRange \/ EchoRise \/ WaitEchoStart
    \/ CountTickMax
    \/ Assign \/ Display \/ Delay \/ CheckSW1

NextAll == Next \/ NextRev

\* The steps of the program itself: everything but the sensor's answer.
Program ==
    \/ TrigHigh \/ TrigLow \/ ResetRange \/ WaitEchoStart
    \/ CountTick
    \/ Assign \/ Display \/ Delay \/ CheckSW1

\* The baseline build.
Spec == Init /\ [][Next]_vars

\* The baseline build on a processor that never stops executing; nothing
\* obliges the sensor to answer a trigger.
LiveSpec == Init /\ [][Next]_vars /\ WF_vars(Program)

\* The revised builds, for each maxRange tried.
SpecRev == InitRev /\ [][NextRev]_vars

\* Every build.
InitAll == Init \/ InitRev
SpecAll == InitAll /\ [][NextAll]_vars

-----------------------------------------------------------------------------
(* Properties *)

Min(a, b) == IF a < b THEN a ELSE b

\* C1: the baseline sonar_range returns min(D, 255) for an ECHO pulse of D
\* ticks: while it counts, range is the number of ticks run, saturated at 255
\* and never wrapped, and a pulse of 1000 ticks returns exactly 255.
C1_BaselineReturnsMinD255 ==
    /\ pc \in {"count", "ret"} => range = Min(echoTicks, 255)
    /\ pc = "ret" => result = Min(echoTicks, 255) /\ sensor = "idle"
    /\ pc = "ret" /\ echoTicks = 1000 => result = 255
C1_Witness == pc = "ret" /\ echoTicks = 1000 /\ result = 255

\* C2: sonar_range(M) with M > 0 returns D when the pulse ended after D < M
\* ticks, and 0 when the pulse lasted M ticks or more.
C2_MaxRangeReturnsDOrZero ==
    pc = "ret" /\ maxRange > 0 =>
        /\ echoTicks < maxRange => result = echoTicks /\ sensor = "idle"
        /\ echoTicks >= maxRange => result = 0
        /\ sensor = "echo" => result = 0
C2_Witness ==
    pc = "ret" /\ maxRange = 90 /\ distance = 89 /\ result = 0 /\ echoTicks = 90

\* C3: sonar_range(0) returns 0, on the first tick, whatever the pulse.
C3_ZeroMaxRangeReturnsZero ==
    pc = "ret" /\ maxRange = 0 => result = 0 /\ echoTicks = 1

\* C4: after the display step of any iteration, LATC holds the pattern of the
\* level that the threshold table gives the distance: > 20 level 4, 11..20
\* level 3, 6..10 level 2, 2..5 level 1, 0..1 level 0.
LevelOf(d) ==
    CASE d \in 21..255 -> 4
      [] d \in 11..20  -> 3
      [] d \in 6..10   -> 2
      [] d \in 2..5    -> 1
      [] d \in 0..1    -> 0
PatternOf(level) ==
    CASE level = 4 -> 240
      [] level = 3 -> 112
      [] level = 2 -> 48
      [] level = 1 -> 16
      [] level = 0 -> 0
C4_DisplayFollowsTable ==
    /\ distance \in 0..255
    /\ pc \in {"delay", "sw1", "boot"} => LATC = PatternOf(LevelOf(distance))
C4_Witness ==
    /\ variant = "baseline" /\ pc = "delay"
    /\ echoTicks = 15 /\ distance = 15 /\ LATC = 112

\* C5: in the revised builds TRIG is never high while ECHO is asserted, also
\* after a measurement that returned early with ECHO still high.
C5_NoTriggerDuringEcho ==
    /\ TRIG(LATC) = 1 => sensor # "echo"
    /\ pc = "trig" => sensor = "idle"
C5_Witness ==
    variant = "guarded" /\ maxRange > 0 /\ TRIG(LATC) = 1 /\ early /\ distance = 0

\* C6: the baseline sonar_range returns only with ECHO low, so every trigger
\* pulse of the baseline main loop starts, and runs, with ECHO low.
C6_BaselineReturnsAfterEcho ==
    /\ pc = "ret" => sensor = "idle" /\ ~early
    /\ pc \in {"display", "delay", "sw1", "trig", "pulse"} => sensor = "idle"
C6_Witness == pc = "pulse" /\ TRIG(LATC) = 1 /\ distance = 255 /\ sensor = "idle"

\* C7: the wait for the start of the echo ends only on ECHO asserted: while
\* ECHO stays low the program stays in that wait (no display update, no reset
\* check), for ever if the sensor never answers; and once ECHO has been seen
\* asserted, the routine returns.
C7_WaitHasNoTimeout ==
    /\ [][pc = "wait" /\ ECHO(sensor) = 0 => pc' = "wait"]_vars
    /\ []((pc = "wait" /\ [](sensor # "echo")) => [](pc = "wait"))
    /\ (pc = "count") ~> (pc = "ret")
C7_Witness == pc = "wait" /\ sensor = "burst" /\ distance > 0

\* C8: with M > 0 the revised routine counts at most M ticks: it is back after
\* at most M ticks from the start of the echo, and leaves with ECHO still
\* high only at tick M, returning 0.
C8_EarlyExitAtMaxRange ==
    maxRange > 0 =>
        /\ pc = "count" => echoTicks < maxRange /\ range = echoTicks
        /\ pc = "ret" => echoTicks <= maxRange
        /\ pc = "ret" /\ sensor = "echo" => result = 0 /\ echoTicks = maxRange /\ early
C8_Witness ==
    pc = "ret" /\ maxRange = 90 /\ sensor = "echo" /\ result = 0 /\ echoTicks = 90

\* C9: in the baseline TRIG is high exactly between the two assignments of
\* the trigger pulse; the LED writes leave the low nibble of LATC zero; and
\* an iteration of the main loop issues one trigger pulse.
C9_TrigOnlyInPulse ==
    /\ TRIG(LATC) = 1 <=> pc = "pulse"
    /\ pc \in {"delay", "sw1", "boot"} => LATC % 16 = 0
    /\ pulses = IF pc = "trig" THEN 0 ELSE 1
C9_Witness == pc = "delay" /\ LATC = 240 /\ pulses = 1

\* C10: the baseline sonar_range returns a value in 1..255, never 0, so after
\* a measurement distance is not 0 and all LEDs are off only for distance 1.
C10_BaselineNeverZero ==
    /\ pc = "ret" => result \in 1..255
    /\ pc \in {"display", "delay", "sw1", "boot"} => distance \in 1..255
    /\ pc \in {"delay", "sw1", "boot"} /\ LATC = 0 => distance = 1
C10_Witness == pc = "delay" /\ LATC = 0 /\ distance = 1 /\ echoTicks = 1

====
